---------------------------- MODULE Spec2Model ----------------------------
(***************************************************************************)
(* A model of the COVID-19 dashboard back end (src/main.py).               *)
(*                                                                         *)
(* Two specifications share the module:                                    *)
(*                                                                         *)
(*   Spec      the snapshot file allData.pkl and the threads that run the  *)
(*             module import (line 68) and the two Dash callbacks,         *)
(*             update_states and update_plots, step by step.  A table is   *)
(*             identified by the refresh_data() call that built it; the    *)
(*             file is a sequence of blocks, each carrying the identity of *)
(*             the refresh that wrote it.                                  *)
(*                                                                         *)
(*   SpecData  the contents: the four source tables, the reshaping of      *)
(*             load_data_global / load_data_us, the merges, and the two    *)
(*             queries update_states and filtered_data, run sequentially.  *)
(***************************************************************************)
EXTENDS Integers, Sequences, FiniteSets, TLC

VARIABLES
    started,   \* the module import finished: the server accepts callbacks
    file,      \* allData.pkl: whether it exists, and the blocks written
    th,        \* per thread: the position in the callback it is running
    nextId,    \* identity given to the next refresh_data() call
    lastGood,  \* <<id>> of the refresh whose to_pickle finished last
    src,       \* the four source tables as published upstream
    pipe,      \* intermediate tables of the last refresh_data() call
    table,     \* the unified table the last refresh_data() call built
    qry        \* the last query and what it returned

cacheVars == <<started, file, th, nextId, lastGood>>
dataVars  == <<src, pipe, table, qry>>
vars      == <<started, file, th, nextId, lastGood, src, pipe, table, qry>>

---------------------------------------------------------------------------
(* Bounds *)

MaxThreads   == 2   \* threads of the web server
MaxRefreshes == 2   \* refresh_data() calls in one run
NumBlocks    == 2   \* write() calls one to_pickle makes

(* Program constants *)

NumSources == 4     \* the four CSV resources refresh_data loads

Threads == 1..MaxThreads

---------------------------------------------------------------------------
(* The snapshot file *)

Absent == [exists |-> FALSE, data |-> <<>>]

OnDisk(blocks) == [exists |-> TRUE, data |-> blocks]

\* The bytes of the pickle of the table built by refresh `id`.
Complete(id) == [i \in 1..NumBlocks |-> id]

\* read_pickle succeeds on exactly the files one to_pickle wrote in full.
IsComplete(f) ==
    /\ f.exists
    /\ Len(f.data) = NumBlocks
    /\ \A i \in 1..NumBlocks : f.data[i] = f.data[1] /\ f.data[i] >= 0

\* A write() of block number `at` through a handle opened by refresh `id`:
\* the handle keeps its own offset, so a file another handle truncated in
\* between is extended with a hole (-1) up to the offset.
WriteAt(f, at, id) ==
    OnDisk([i \in 1..(IF Len(f.data) > at THEN Len(f.data) ELSE at) |->
              IF i = at THEN id ELSE IF i <= Len(f.data) THEN f.data[i] ELSE -1])

---------------------------------------------------------------------------
(* Threads *)

Idle ==
    [pc |-> "idle", cb |-> "none", ret |-> "none", id |-> 0, k |-> 0,
     pos |-> 0, absent |-> FALSE, lf |-> 0, lr |-> 0, hadSnap |-> FALSE,
     rfail |-> FALSE, res |-> <<>>, out |-> "none"]

\* An exception leaves the callback: Dash answers the request with an error.
\* Raised while the module is imported, it ends the process.
Raised(s) ==
    IF s.cb = "import"
    THEN [s EXCEPT !.pc = "crashed", !.out = "error"]
    ELSE [s EXCEPT !.pc = "return", !.out = "error",
                   !.rfail = (s.ret = "plots" /\ s.pc \in {"fetch", "open", "write"})]

\* refresh_data() entered by thread state s, called from `from`.
EnterRefresh(s, from) ==
    [s EXCEPT !.pc = "fetch", !.ret = from, !.id = nextId, !.k = 0, !.pos = 0]

\* @app.callback update_states: d = all_data()
StartStates(t) ==
    /\ started
    /\ th[t].pc = "idle"
    /\ th' = [th EXCEPT ![t] = [Idle EXCEPT !.pc = "isfile", !.cb = "states"]]
    /\ UNCHANGED <<started, file, nextId, lastGood, dataVars>>

\* @app.callback update_plots: refresh_data() comes first, on every call.
StartPlots(t) ==
    /\ started
    /\ th[t].pc = "idle"
    /\ nextId <= MaxRefreshes
    /\ th' = [th EXCEPT ![t] =
                [EnterRefresh([Idle EXCEPT !.cb = "plots"], "plots")
                    EXCEPT !.hadSnap = file.exists]]
    /\ nextId' = nextId + 1
    /\ UNCHANGED <<started, file, lastGood, dataVars>>

\* all_data without the isfile test: it refreshes on every call.
IsFileAlwaysRefresh(t) ==
    /\ th[t].pc = "isfile"
    /\ nextId <= MaxRefreshes
    /\ th' = [th EXCEPT ![t] =
                [EnterRefresh(th[t], "load")
                    EXCEPT !.absent = ~file.exists, !.lr = th[t].lr + 1]]
    /\ nextId' = nextId + 1
    /\ UNCHANGED <<started, file, lastGood, dataVars>>

\* all_data: if not isfile(fileNamePickle): refresh_data()
IsFile(t) ==
    /\ th[t].pc = "isfile"
    /\ IF ~file.exists
       THEN /\ nextId <= MaxRefreshes
            /\ th' = [th EXCEPT ![t] =
                        [EnterRefresh(th[t], "load")
                            EXCEPT !.absent = TRUE, !.lr = th[t].lr + 1]]
            /\ nextId' = nextId + 1
       ELSE /\ th' = [th EXCEPT ![t].pc = "read", ![t].absent = FALSE]
            /\ UNCHANGED nextId
    /\ UNCHANGED <<started, file, lastGood, dataVars>>

\* One load_data_global / load_data_us call of refresh_data: read_csv
\* fetches the resource, the rest reshapes it.
Fetch(t) ==
    /\ th[t].pc = "fetch"
    /\ th[t].k < NumSources
    /\ th' = [th EXCEPT ![t].k = th[t].k + 1,
                        ![t].lf = IF th[t].ret = "load" THEN th[t].lf + 1 ELSE th[t].lf,
                        ![t].pc = IF th[t].k + 1 = NumSources THEN "open" ELSE "fetch"]
    /\ UNCHANGED <<started, file, nextId, lastGood, dataVars>>

\* read_csv or the reshaping raises.
FetchFail(t) ==
    /\ th[t].pc = "fetch"
    /\ th' = [th EXCEPT ![t] = Raised(th[t])]
    /\ UNCHANGED <<started, file, nextId, lastGood, dataVars>>

\* to_pickle that removes the old file and creates the new one with its
\* first write.
OpenUnlink(t) ==
    /\ th[t].pc = "open"
    /\ file' = Absent
    /\ th' = [th EXCEPT ![t].pc = "write", ![t].pos = 0]
    /\ UNCHANGED <<started, nextId, lastGood, dataVars>>

\* data.to_pickle(fileNamePickle) opens the file for writing: it is created
\* or truncated in place.
Open(t) ==
    /\ th[t].pc = "open"
    /\ file' = OnDisk(<<>>)
    /\ th' = [th EXCEPT ![t].pc = "write", ![t].pos = 0]
    /\ UNCHANGED <<started, nextId, lastGood, dataVars>>

Write(t) ==
    /\ th[t].pc = "write"
    /\ th[t].pos < NumBlocks
    /\ file' = WriteAt(file, th[t].pos + 1, th[t].id)
    /\ th' = [th EXCEPT ![t].pos = th[t].pos + 1,
                        ![t].pc = IF th[t].pos + 1 = NumBlocks THEN "close" ELSE "write"]
    /\ UNCHANGED <<started, nextId, lastGood, dataVars>>

\* to_pickle raises after the file was opened (disk full, I/O error).
WriteFail(t) ==
    /\ th[t].pc = "write"
    /\ th' = [th EXCEPT ![t] = Raised(th[t])]
    /\ UNCHANGED <<started, file, nextId, lastGood, dataVars>>

\* to_pickle closes the file and refresh_data returns to its caller:
\* update_plots goes on with filtered_data -> all_data, all_data with
\* read_pickle.
Close(t) ==
    /\ th[t].pc = "close"
    /\ lastGood' = <<th[t].id>>
    /\ th' = [th EXCEPT ![t].pc = IF th[t].ret = "plots" THEN "isfile" ELSE "read"]
    /\ UNCHANGED <<started, file, nextId, dataVars>>

\* all_data: full_data = pd.read_pickle(fileNamePickle); the caller then
\* computes its result from the table.
Read(t) ==
    /\ th[t].pc = "read"
    /\ file.exists
    /\ th' = [th EXCEPT ![t] =
                IF IsComplete(file)
                THEN [th[t] EXCEPT !.res = <<file.data>>, !.pc = "return", !.out = "ok"]
                ELSE Raised([th[t] EXCEPT !.res = <<file.data>>])]
    /\ UNCHANGED <<started, file, nextId, lastGood, dataVars>>

\* The callback (or the import) returns.
Return(t) ==
    /\ th[t].pc = "return"
    /\ th' = [th EXCEPT ![t] = Idle]
    /\ started' = (started \/ th[t].cb = "import")
    /\ UNCHANGED <<file, nextId, lastGood, dataVars>>

---------------------------------------------------------------------------
(* The cache specification *)

DataIdle ==
    /\ src = <<>>
    /\ pipe = <<>>
    /\ table = <<>>
    /\ qry = <<>>

\* The process starts importing the module (countries = all_data()...) on
\* thread 1; allData.pkl is absent on a first start and a complete snapshot
\* of an earlier run (refresh 0) otherwise.
Init ==
    /\ started = FALSE
    /\ file \in {Absent, OnDisk(Complete(0))}
    /\ th = [t \in Threads |->
                IF t = 1 THEN [Idle EXCEPT !.pc = "isfile", !.cb = "import"] ELSE Idle]
    /\ nextId = 1
    /\ lastGood = IF file.exists THEN <<0>> ELSE <<>>
    /\ DataIdle

Next ==
    \E t \in Threads :
        \/ StartStates(t)
        \/ StartPlots(t)
        \/ IsFile(t)
        \/ Fetch(t)
        \/ FetchFail(t)
        \/ Open(t)
        \/ Write(t)
        \/ WriteFail(t)
        \/ Close(t)
        \/ Read(t)
        \/ Return(t)

Spec == Init /\ [][Next]_vars

---------------------------------------------------------------------------
(* Table contents *)

NumDates == 3   \* date columns of a source table
MaxVal   == 1   \* largest count in a varied cell

NA == 0 - 1     \* a missing count (pd.NA in an Int64 column)

Dates == 1..NumDates

\* Every string the tables hold, in the ascending order of Python's str.
StrOrder ==
    <<"<all>", "Alabama", "Alaska", "Alberta", "Beijing", "British Columbia",
      "Canada", "China", "Hubei", "US">>

Rank(str) == CHOOSE i \in 1..Len(StrOrder) : StrOrder[i] = str

RECURSIVE Flatten(_)
Flatten(ss) == IF ss = <<>> THEN <<>> ELSE Head(ss) \o Flatten(Tail(ss))

\* Series.unique(): the distinct values in order of first appearance.
RECURSIVE Unique(_)
Unique(s) ==
    IF s = <<>> THEN <<>>
    ELSE LET init == Unique(SubSeq(s, 1, Len(s) - 1))
             last == s[Len(s)]
         IN  IF \E i \in 1..Len(init) : init[i] = last THEN init ELSE Append(init, last)

\* DataFrame[name]: one column of a table.
Column(rows, name) == [i \in 1..Len(rows) |-> rows[i][name]]

\* sum over a group of an Int64 column that propagates a missing value
\* (skipna=False).
RECURSIVE SumPropagateNA(_)
SumPropagateNA(vs) ==
    IF vs = <<>> THEN 0
    ELSE LET rest == SumPropagateNA(Tail(vs))
         IN  IF Head(vs) = NA \/ rest = NA THEN NA ELSE Head(vs) + rest

\* sum over a group of an Int64 column: missing values are skipped, and a
\* group with none left sums to 0.
RECURSIVE SumSkipNA(_)
SumSkipNA(vs) ==
    IF vs = <<>> THEN 0
    ELSE (IF Head(vs) = NA THEN 0 ELSE Head(vs)) + SumSkipNA(Tail(vs))

\* sum of a float column (no value is missing in Lat, Long here).
RECURSIVE SumAll(_)
SumAll(vs) == IF vs = <<>> THEN 0 ELSE Head(vs) + SumAll(Tail(vs))

\* np.median: the middle value, or the mean of the two middle values.
\* Coordinates are even integers, so the mean of two is exact.
Median(vs) ==
    LET n   == Len(vs)
        srt == SortSeq(vs, LAMBDA a, b : a < b)
    IN  IF n % 2 = 1 THEN srt[(n + 1) \div 2]
        ELSE (srt[n \div 2] + srt[n \div 2 + 1]) \div 2

\* .melt(id_vars=[Country, Province/State, Lat, Long], var_name='date'):
\* one row per source row and date column, the rows of the first date
\* column first.  f.dates is the number of date columns of the table.
Melt(f) ==
    LET n == Len(f.rows)
    IN  [j \in 1..(f.dates * n) |->
            LET r == f.rows[((j - 1) % n) + 1]
                d == ((j - 1) \div n) + 1
            IN  [Country |-> r.Country, Prov |-> r.Prov, Lat |-> r.Lat,
                 Long |-> r.Long, date |-> d, v |-> r.vals[d]]]

\* The keys of a groupby, ascending (groupby sorts its keys).
SortedCountries(rows) ==
    SelectSeq(StrOrder, LAMBDA c : \E i \in 1..Len(rows) : rows[i].Country = c)

SortedProvs(rows, c) ==
    SelectSeq(StrOrder,
              LAMBDA p : \E i \in 1..Len(rows) : rows[i].Country = c /\ rows[i].Prov = p)

SortedDates(rows) ==
    SelectSeq([d \in 1..NumDates |-> d],
              LAMBDA d : \E i \in 1..Len(rows) : rows[i].date = d)

\* load_data_global with the country total summed with skipna=False.
load_data_global_propagate(f) ==
    LET data  == Melt(f)
        china == SelectSeq(data, LAMBDA r : r.Country = "China")
        Group(c, d) == SelectSeq(data, LAMBDA r : r.Country = c /\ r.date = d)
        Agg(c, d) ==
            LET g == Group(c, d)
            IN  [Country |-> c, Prov |-> "<all>",
                 Lat |-> Median(Column(g, "Lat")),
                 Long |-> Median(Column(g, "Long")),
                 date |-> d, v |-> SumPropagateNA(Column(g, "v"))]
        cs == SortedCountries(data)
        ds == SortedDates(data)
    IN  Flatten([i \in 1..Len(cs) |-> [j \in 1..Len(ds) |-> Agg(cs[i], ds[j])]])
            \o china

\* load_data_global(file_name, column_name): one row per (Country, date)
\* with the summed count, the median coordinates and Province/State
\* '<all>', followed by the rows of China as they were read.
load_data_global(f) ==
    LET data  == Melt(f)
        china == SelectSeq(data, LAMBDA r : r.Country = "China")
        Group(c, d) == SelectSeq(data, LAMBDA r : r.Country = c /\ r.date = d)
        Agg(c, d) ==
            LET g == Group(c, d)
            IN  [Country |-> c, Prov |-> "<all>",
                 Lat |-> Median(Column(g, "Lat")),
                 Long |-> Median(Column(g, "Long")),
                 date |-> d, v |-> SumSkipNA(Column(g, "v"))]
        cs == SortedCountries(data)
        ds == SortedDates(data)
    IN  Flatten([i \in 1..Len(cs) |-> [j \in 1..Len(ds) |-> Agg(cs[i], ds[j])]])
            \o china

\* load_data_us(file_name, column_name): one row per (Country,
\* Province/State, date), the counties of a state summed.  The columns
\* dropped before the melt (the first six, Population, Combined_Key) carry
\* nothing the table keeps and are not part of a source row here.
load_data_us(f) ==
    LET data == Melt(f)
        Group(c, p, d) ==
            SelectSeq(data, LAMBDA r : r.Country = c /\ r.Prov = p /\ r.date = d)
        Agg(c, p, d) ==
            LET g == Group(c, p, d)
            IN  [Country |-> c, Prov |-> p,
                 Lat |-> Median(Column(g, "Lat")),
                 Long |-> Median(Column(g, "Long")),
                 date |-> d, v |-> SumSkipNA(Column(g, "v"))]
        cs == SortedCountries(data)
        ds == SortedDates(data)
    IN  Flatten([i \in 1..Len(cs) |->
            LET ps == SortedProvs(data, cs[i])
            IN  Flatten([k \in 1..Len(ps) |->
                    [j \in 1..Len(ds) |-> Agg(cs[i], ps[k], ds[j])]])])

\* The columns two single-metric tables share: DataFrame.merge joins on
\* all of them.
MergeKey(r) == <<r.Country, r.Prov, r.Lat, r.Long, r.date>>

\* confirmed.merge(deaths): the inner join on the shared columns, in the
\* order of the left table.
Merge(A, B) ==
    Flatten([i \in 1..Len(A) |->
        LET m == SelectSeq(B, LAMBDA b : MergeKey(b) = MergeKey(A[i]))
        IN  [j \in 1..Len(m) |->
                [Country |-> A[i].Country, Prov |-> A[i].Prov, Lat |-> A[i].Lat,
                 Long |-> A[i].Long, date |-> A[i].date,
                 CumConfirmed |-> A[i].v, CumDeaths |-> m[j].v]]])

\* refresh_data: the tables it builds on the way, and the unified table.
RefreshPipe(s) ==
    LET gc == load_data_global(s.gc)
        gd == load_data_global(s.gd)
        uc == load_data_us(s.uc)
        ud == load_data_us(s.ud)
    IN  [gc |-> gc, gd |-> gd, g |-> Merge(gc, gd),
         uc |-> uc, ud |-> ud, u |-> Merge(uc, ud)]

refresh_data(s) == LET p == RefreshPipe(s) IN p.g \o p.u

\* update_states(country): the options of the state dropdown.
update_states(d, country) ==
    LET rows   == SelectSeq(d, LAMBDA r : r.Country = country)
        states == <<"<all>">> \o Unique(Column(rows, "Prov"))
    IN  SortSeq(states, LAMBDA a, b : Rank(a) < Rank(b))

\* .diff() whose first row is the value itself (a difference against 0).
DiffFromZero(cum) ==
    [i \in 1..Len(cum) |->
        IF i = 1 THEN (IF cum[1] = NA THEN 0 ELSE cum[1])
        ELSE IF cum[i] = NA \/ cum[i - 1] = NA THEN 0
        ELSE cum[i] - cum[i - 1]]

\* .diff().fillna(0): the difference to the row before; the first row,
\* and every row where the difference is missing, gets 0.
Diff(cum) ==
    [i \in 1..Len(cum) |->
        IF i = 1 THEN 0
        ELSE IF cum[i] = NA \/ cum[i - 1] = NA THEN 0
        ELSE cum[i] - cum[i - 1]]

SmaLength == 7

\* simple_moving_average: rolling(length).mean() of a column without
\* missing values; <<>> where the window is not full, else <<7 * mean>>.
simple_moving_average(col) ==
    [i \in 1..Len(col) |->
        IF i < SmaLength THEN <<>>
        ELSE <<SumAll(SubSeq(col, i - SmaLength + 1, i))>>]

\* filtered_data(country, state).  The dateStr column, a formatting of
\* date, is left out.
filtered_data(d, country, state) ==
    LET ofCountry == SelectSeq(d, LAMBDA r : r.Country = country)
        ds        == SortedDates(ofCountry)
        data ==
            IF state = "<all>"
            THEN [j \in 1..Len(ds) |->
                    LET g == SelectSeq(ofCountry, LAMBDA r : r.date = ds[j])
                    IN  [date |-> ds[j],
                         Lat |-> SumAll(Column(g, "Lat")),
                         Long |-> SumAll(Column(g, "Long")),
                         CumConfirmed |-> SumSkipNA(Column(g, "CumConfirmed")),
                         CumDeaths |-> SumSkipNA(Column(g, "CumDeaths"))]]
            ELSE LET sel == SelectSeq(ofCountry, LAMBDA r : r.Prov = state)
                 IN  [j \in 1..Len(sel) |->
                        [date |-> sel[j].date, Lat |-> sel[j].Lat, Long |-> sel[j].Long,
                         CumConfirmed |-> sel[j].CumConfirmed,
                         CumDeaths |-> sel[j].CumDeaths]]
        newC == Diff(Column(data, "CumConfirmed"))
        newD == Diff(Column(data, "CumDeaths"))
        smaC == simple_moving_average(newC)
        smaD == simple_moving_average(newD)
    IN  [j \in 1..Len(data) |->
            [date |-> data[j].date, Lat |-> data[j].Lat, Long |-> data[j].Long,
             CumConfirmed |-> data[j].CumConfirmed, CumDeaths |-> data[j].CumDeaths,
             NewConfirmed |-> newC[j], NewDeaths |-> newD[j],
             NewConfirmedSMA7 |-> smaC[j], NewDeathsSMA7 |-> smaD[j]]]

---------------------------------------------------------------------------
(* The source tables *)

Vals == 0..MaxVal \cup {NA}

ConstVec(x) == [d \in Dates |-> x]

Ramp == [d \in Dates |-> IF d - 1 < MaxVal THEN d - 1 ELSE MaxVal]

SmallVecs == {ConstVec(NA), ConstVec(MaxVal), Ramp}

RawRow(c, p, lat, long, vals) ==
    [Country |-> c, Prov |-> p, Lat |-> lat, Long |-> long, vals |-> vals]

\* time_series_covid19_confirmed_global.csv: Hubei's and Beijing's counts
\* vary; the row of the US is the total of the US table below.
GlobalConfirmed(hubei, beijing) ==
    [dates |-> NumDates,
     rows  |-> << RawRow("Canada", "Alberta", 54, -116, Ramp),
                  RawRow("Canada", "British Columbia", 50, -124, ConstVec(MaxVal)),
                  RawRow("China", "Beijing", 40, 116, beijing),
                  RawRow("China", "Hubei", 30, 112, hubei),
                  RawRow("US", "NaN", 38, -98, [d \in Dates |-> Ramp[d] + MaxVal]) >>]

\* time_series_covid19_deaths_global.csv: it may lack a row the confirmed
\* table has, and may be one date column behind it.
GlobalDeaths(hubei, lacks, lag) ==
    [dates |-> IF lag THEN NumDates - 1 ELSE NumDates,
     rows  |-> SelectSeq(<< RawRow("Canada", "Alberta", 54, -116, ConstVec(0)),
                            RawRow("Canada", "British Columbia", 50, -124, ConstVec(0)),
                            RawRow("China", "Beijing", 40, 116, Ramp),
                            RawRow("China", "Hubei", 30, 112, hubei),
                            RawRow("US", "NaN", 38, -98, Ramp) >>,
                         LAMBDA r : r.Prov \notin lacks)]

\* time_series_covid19_confirmed_US.csv: two counties of Alabama, one of
\* Alaska.
USConfirmed ==
    [dates |-> NumDates,
     rows  |-> << RawRow("US", "Alabama", 32, -86, Ramp),
                  RawRow("US", "Alabama", 30, -88, ConstVec(MaxVal)),
                  RawRow("US", "Alaska", 62, -150, ConstVec(0)) >>]

USDeaths ==
    [dates |-> NumDates,
     rows  |-> << RawRow("US", "Alabama", 32, -86, Ramp),
                  RawRow("US", "Alabama", 30, -88, ConstVec(0)),
                  RawRow("US", "Alaska", 62, -150, ConstVec(0)) >>]

Source(hc, bc, hd, lacks, lag) ==
    [gc |-> GlobalConfirmed(hc, bc), gd |-> GlobalDeaths(hd, lacks, lag),
     uc |-> USConfirmed, ud |-> USDeaths]

\* What upstream may publish: aligned tables with every series of Hubei's
\* confirmed counts, and the misalignments of the deaths table with a few.
Sources ==
    { Source(hc, bc, Ramp, {}, FALSE) :
        hc \in [Dates -> Vals], bc \in {ConstVec(NA), Ramp} }
    \cup
    { Source(hc, Ramp, hd, lacks, lag) :
        hc \in SmallVecs, hd \in SmallVecs,
        lacks \in {{}, {"Beijing"}, {"British Columbia"}}, lag \in BOOLEAN }

\* The values of the country dropdown: the countries of the table.
CountryValues == {"Canada", "China", "US"}

Range(seq) == {seq[i] : i \in 1..Len(seq)}

---------------------------------------------------------------------------
(* The contents specification *)

CacheIdle ==
    /\ started = TRUE
    /\ file = Absent
    /\ th = [t \in Threads |-> Idle]
    /\ nextId = 1
    /\ lastGood = <<>>

InitData ==
    /\ src \in Sources
    /\ pipe = <<>>
    /\ table = <<>>
    /\ qry = <<>>
    /\ CacheIdle

\* The module import, countries = all_data()['Country'].unique(), on an
\* empty cache: all_data runs refresh_data and reads the table back.
DImport ==
    /\ pipe = <<>>
    /\ pipe' = <<RefreshPipe(src)>>
    /\ table' = refresh_data(src)
    /\ qry' = <<>>
    /\ UNCHANGED <<src, cacheVars>>

\* The callback update_states(country).
DUpdateStates(country) ==
    /\ pipe # <<>>
    /\ qry' = <<[kind |-> "states", country |-> country, state |-> "",
                 out |-> update_states(table, country)]>>
    /\ UNCHANGED <<src, pipe, table, cacheVars>>

\* The callback update_plots(country, state, metrics, n), with a state
\* the state dropdown offers for the country: refresh_data(), then
\* filtered_data(country, state) on the table read back.
DUpdatePlots(country, state) ==
    /\ pipe # <<>>
    /\ pipe' = <<RefreshPipe(src)>>
    /\ table' = refresh_data(src)
    /\ qry' = <<[kind |-> "filtered", country |-> country, state |-> state,
                 out |-> filtered_data(table', country, state)]>>
    /\ UNCHANGED <<src, cacheVars>>

NextData ==
    \/ DImport
    \/ \E c \in CountryValues : DUpdateStates(c)
    \/ \E c \in CountryValues :
          \E s \in Range(update_states(table, c)) : DUpdatePlots(c, s)

SpecData == InitData /\ [][NextData]_vars

---------------------------------------------------------------------------
(* Claims about the cache *)

Writers == {t \in Threads : th[t].pc \in {"write", "close"}}

\* C2, as stated: queries never fetch, whether the snapshot file is present
\* or absent; the only fetches are those of an explicit refresh.  No call
\* of all_data, by any caller, has fetched a source.
C2_NoLoadEverFetches ==
    \A t \in Threads : th[t].lf = 0 /\ th[t].lr = 0

\* C2, amended: update_states and filtered_data (in update_plots) never
\* fetch a source nor start a refresh inside all_data, because the snapshot
\* file exists whenever a callback runs; all_data fetches only when it
\* found no snapshot file, which happens while the module is imported.
C2_QueriesNeverFetch ==
    \A t \in Threads :
        /\ th[t].cb \in {"states", "plots"} => th[t].lf = 0 /\ th[t].lr = 0
        /\ th[t].lf > 0 => th[t].absent /\ th[t].cb = "import"

\* A query returned its result while another thread was inside refresh_data.
C2_QueryDone ==
    \E t, u \in Threads :
        /\ th[t].cb = "states" /\ th[t].pc = "return" /\ th[t].out = "ok"
        /\ th[u].cb = "plots" /\ th[u].pc = "fetch" /\ th[u].k > 0

\* C3: a refresh that fails while a snapshot existed does not fail the
\* caller: update_plots still returns a series computed from the snapshot.
C3_StaleSeriesOnFailedRefresh ==
    \A t \in Threads :
        (th[t].cb = "plots" /\ th[t].pc = "return" /\ th[t].rfail /\ th[t].hadSnap)
            => th[t].out = "ok"

\* C4: once a refresh has succeeded, the snapshot file is, whenever no
\* to_pickle is in progress, the complete result of the last refresh that
\* succeeded: a failed refresh leaves it as it was.
C4_FileIsLastGoodSnapshot ==
    (Writers = {} /\ lastGood # <<>>) => file = OnDisk(Complete(lastGood[1]))

\* C5: every read of the snapshot got the complete result of one refresh,
\* and at most one thread at a time is writing the file.
C5_ReadsCompleteWritesSerialized ==
    /\ \A t \in Threads :
          th[t].res # <<>> => \E id \in 0..MaxRefreshes : th[t].res[1] = Complete(id)
    /\ Cardinality(Writers) <= 1

\* C6: an all_data call that found no snapshot file ran exactly one
\* refresh_data (one fetch of each of the four sources) and returned the
\* table that refresh built; a call that found the file fetched nothing,
\* and read_pickle of a complete snapshot returns that snapshot.
C6_LoadRefreshesOnlyWhenEmpty ==
    /\ [](\A t \in Threads :
            (th[t].pc = "return" /\ th[t].out = "ok") =>
                IF th[t].absent
                THEN /\ th[t].lr = 1
                     /\ th[t].lf = NumSources
                     /\ th[t].res = <<Complete(th[t].id)>>
                ELSE th[t].lr = 0 /\ th[t].lf = 0)
    /\ [][\A t \in Threads :
            (th[t].pc = "read" /\ th'[t].pc # "read" /\ IsComplete(file)) =>
                /\ th'[t].out = "ok"
                /\ th'[t].res = <<file.data>>
                /\ th'[t].lf = th[t].lf
                /\ file' = file]_vars

\* The import found no snapshot, refreshed, and all_data returned.
C6_LoadedOnEmptyCache ==
    \E t \in Threads :
        /\ th[t].cb = "import" /\ th[t].pc = "return" /\ th[t].out = "ok"
        /\ th[t].absent /\ th[t].lf = NumSources

---------------------------------------------------------------------------
(* Claims about the table contents *)

Min(a, b) == IF a < b THEN a ELSE b

\* The total of a country on date d in a source table, every row of the
\* country counted once (a missing count as 0).
CountryTotal(f, country, d) ==
    LET rows == SelectSeq(f.rows, LAMBDA r : r.Country = country)
    IN  SumSkipNA([i \in 1..Len(rows) |-> rows[i].vals[d]])

\* C1: the series of query(country, '<all>') holds, for every date, the
\* total of the country with each entity counted once: the value of the
\* confirmed and of the deaths source table summed over the country's rows.
C1_AllSeriesCountsEntitiesOnce ==
    (qry # <<>> /\ qry[1].kind = "filtered" /\ qry[1].state = "<all>") =>
        \A i \in 1..Len(qry[1].out) :
            LET r == qry[1].out[i]
            IN  /\ r.CumConfirmed = CountryTotal(src.gc, qry[1].country, r.date)
                /\ r.CumDeaths = CountryTotal(src.gd, qry[1].country, r.date)

ProvincesOf(country) ==
    {table[i].Prov : i \in {j \in 1..Len(table) : table[j].Country = country}}

\* C7: the options update_states returns are the distinct Province/State
\* values of the country and the sentinel, strictly ascending (so none is
\* repeated), the sentinel first; a country without sub-national rows gets
\* the sentinel alone.
C7_RegionsSortedDistinctSentinelFirst ==
    (qry # <<>> /\ qry[1].kind = "states") =>
        LET o == qry[1].out
        IN  /\ o[1] = "<all>"
            /\ \A i, j \in 1..Len(o) : i < j => Rank(o[i]) < Rank(o[j])
            /\ Range(o) = ProvincesOf(qry[1].country) \cup {"<all>"}
            /\ (ProvincesOf(qry[1].country) \subseteq {"<all>"} => o = <<"<all>">>)

EntityDateKeys(rows) ==
    {<<rows[i].Country, rows[i].Prov, rows[i].date>> : i \in 1..Len(rows)}

InnerJoinOnEntityDate(A, B, M) ==
    /\ Len(M) <= Min(Len(A), Len(B))
    /\ (EntityDateKeys(A) = EntityDateKeys(B) => Len(M) = Min(Len(A), Len(B)))

\* C8: each merge of refresh_data is the inner join on (Country,
\* Province/State, date): it has at most as many rows as the smaller
\* input, and exactly as many when both inputs hold the same keys.
C8_MergeIsInnerJoinOnEntityDate ==
    pipe # <<>> =>
        /\ InnerJoinOnEntityDate(pipe[1].gc, pipe[1].gd, pipe[1].g)
        /\ InnerJoinOnEntityDate(pipe[1].uc, pipe[1].ud, pipe[1].u)

ChinaOn(rows, d) == SelectSeq(rows, LAMBDA r : r.Country = "China" /\ r.date = d)

AggregateSum(rows, d) ==
    SumSkipNA(Column(SelectSeq(ChinaOn(rows, d), LAMBDA r : r.Prov = "<all>"),
                     "CumConfirmed"))

ProvincialSum(rows, d) ==
    SumSkipNA(Column(SelectSeq(ChinaOn(rows, d), LAMBDA r : r.Prov # "<all>"),
                     "CumConfirmed"))

\* The merge kept every row China has on date d in the confirmed table.
ChinaKept(d) ==
    LET before == ChinaOn(pipe[1].gc, d)
        after  == ChinaOn(table, d)
    IN  /\ before # <<>>
        /\ \A i \in 1..Len(before) :
              \E j \in 1..Len(after) : after[j].Prov = before[i].Prov

\* C9, as stated: in the unified table, for China and every date, the
\* CumConfirmed of the aggregate rows sums to that of the provincial rows.
C9_AggregateEqualsProvinces ==
    pipe # <<>> =>
        \A d \in Dates : AggregateSum(table, d) = ProvincialSum(table, d)

\* C9, amended: the two sums agree on every date for which the merge with
\* the deaths table kept China's aggregate row and all its provincial rows.
C9_AggregateEqualsProvincesWhereKept ==
    pipe # <<>> =>
        \A d \in Dates :
            ChinaKept(d) => AggregateSum(table, d) = ProvincialSum(table, d)

\* A date with all of China's rows kept, two provinces, one count missing
\* and a total that is not 0.
C9_KeptWithMissingCount ==
    /\ pipe # <<>>
    /\ \E d \in Dates :
          /\ ChinaKept(d)
          /\ AggregateSum(table, d) > 0
          /\ \E i, j \in 1..Len(table) :
                /\ table[i].Country = "China" /\ table[i].date = d
                /\ table[i].Prov = "Hubei" /\ table[i].CumConfirmed = NA
                /\ table[j].Country = "China" /\ table[j].date = d
                /\ table[j].Prov = "Beijing" /\ table[j].CumConfirmed > 0

RECURSIVE SumRange(_, _, _)
SumRange(col, from, to) ==
    IF from > to THEN 0 ELSE col[from] + SumRange(col, from + 1, to)

Telescopes(cum, new, start, end) ==
    cum[end] - cum[start] = SumRange(new, start + 1, end)

NoGap(cum, start, end) == \A i \in start..end : cum[i] # NA

=============================================================================
